---- MODULE Spec2Model ----
(***************************************************************************)
(* One capture run of tkr_save_page: save_page_with_assets followed by the *)
(* translation of the saved document, as written in src/save_page.py and   *)
(* in its earlier variant src/app.py.                                      *)
(*                                                                         *)
(* A string is a sequence of tokens.  A token stands for a run of          *)
(* characters that the programs never split: "O" is the scheme and host of *)
(* the page ('https://www.example.com'), "P" another host, "/" the path    *)
(* separator, "a" and "b" path segments, "<p>" a start tag, "hi" a text. *)
(* str.replace, startswith, split, urljoin, urlparse and os.path.basename  *)
(* work on these sequences as they work on Python strings.                 *)
(*                                                                         *)
(* Environment.  The failures that can happen are: os.makedirs of the      *)
(* destination or of assets/, the page render, one asset's fetch, decode   *)
(* or write, and one unit's translation.  The browser launch, the appends  *)
(* to errors.md and the writes of the two html files succeed.  logger      *)
(* output is not part of the state.                                        *)
(***************************************************************************)
EXTENDS Naturals, Sequences, FiniteSets, TLC

\* Longest list of asset references a rendered page holds.
MaxAssets == 2

VARIABLES
    prog,          \* which program runs: "save_page" or "app"
    pc,            \* position of the run
    page,          \* the rendered page: [refs], the references as written in the document
    html_content,  \* the local variable html_content
    urls,          \* the list returned by page.evaluate
    idx,           \* index into urls of the next asset of the for loop
    files,         \* destination directory: file name -> content (errors.md apart)
    errors,        \* lines appended to errors.md
    failures,      \* history: kinds of failure that happened in the run
    trace          \* history: fetches, decodes, writes, substitutions, translation calls

vars == <<prog, pc, page, html_content, urls, idx, files, errors, failures, trace>>

Programs == {"save_page", "app"}

\* ------------------------------------------------------------------ strings

Range(s) == {s[i] : i \in DOMAIN s}

StartsWith(s, p) == Len(p) <= Len(s) /\ SubSeq(s, 1, Len(p)) = p

\* s.replace(old, new): every non-overlapping occurrence, leftmost first.
RECURSIVE Replace(_, _, _)
Replace(s, old, new) ==
    IF s = <<>> THEN <<>>
    ELSE IF old # <<>> /\ StartsWith(s, old)
         THEN new \o Replace(SubSeq(s, Len(old) + 1, Len(s)), old, new)
         ELSE <<Head(s)>> \o Replace(Tail(s), old, new)

\* Number of places of s where sub starts.
Occurs(s, sub) ==
    Cardinality({i \in 1..Len(s) : i + Len(sub) - 1 <= Len(s)
                                   /\ SubSeq(s, i, i + Len(sub) - 1) = sub})

\* Index of the first t in s, 0 when there is none.
IndexOf(s, t) ==
    IF t \in Range(s) THEN CHOOSE i \in DOMAIN s : s[i] = t /\ \A j \in 1..(i - 1) : s[j] # t
    ELSE 0

\* Index of the last t in s, 0 when there is none.
LastIndexOf(s, t) ==
    IF t \in Range(s) THEN CHOOSE i \in DOMAIN s : s[i] = t /\ \A j \in (i + 1)..Len(s) : s[j] # t
    ELSE 0

\* s.split(t)[0] and the rest after the first t.
Before(s, t) == IF IndexOf(s, t) = 0 THEN s ELSE SubSeq(s, 1, IndexOf(s, t) - 1)
After(s, t) == SubSeq(s, IndexOf(s, t) + 1, Len(s))

\* ------------------------------------------------------------------ URLs

\* The page of the run.
url == <<"O">>

\* First tokens of a reference that carries its own scheme.
Schemes == {"O", "P", "data:"}

\* urljoin(base, ref), for a base without a path.
urljoin(base, ref) ==
    IF ref # <<>> /\ ref[1] \in Schemes THEN ref ELSE base \o <<"/">> \o ref

\* urlparse(asset_url).path
UrlPath(u) == IF u # <<>> /\ u[1] \in Schemes THEN Tail(u) ELSE u

\* os.path.basename(path)
basename(p) == SubSeq(p, LastIndexOf(p, "/") + 1, Len(p))

\* hash(): one token per hashed string, different strings giving different tokens.
HashInputs == << <<"O", "/">>, <<"QQ==">>, <<"Q">> >>
HashNames == <<"#1", "#2", "#3">>
Hash(s) ==
    IF \E i \in DOMAIN HashInputs : HashInputs[i] = s
    THEN HashNames[CHOOSE i \in DOMAIN HashInputs : HashInputs[i] = s]
    ELSE "#0"

\* base64.b64decode(data): the payloads with correct padding decode.
B64Valid(data) == data = <<"QQ==">>
B64Decode(data) == <<"A">>

\* ------------------------------------------------------------------ pages

\* The references a document may hold, as written in it.
RefA == <<"O", "/", "a">>
RefDeep == <<"O", "/", "a", "/", "b">>
RefRel == <<"a">>
RefOther == <<"P", "/", "a">>
RefDir == <<"O", "/">>
RefData == <<"data:", "image", "/", "png", ";", "base64", ",", "QQ==">>
RefBadData == <<"data:", "image", "/", "png", ";", "base64", ",", "Q">>
RawRefs == {RefA, RefDeep, RefRel, RefOther, RefDir, RefData, RefBadData}

RefLists == UNION {[1..n -> RawRefs] : n \in 0..MaxAssets}

\* alt text of the i-th image of a page
AltOf(i) == CASE i = 1 -> "cat" [] i = 2 -> "" [] OTHER -> "boom"

ImgTag(ref, alt) == <<"<img src=">> \o ref \o <<" alt=", alt, ">">>

RECURSIVE Imgs(_, _)
Imgs(refs, i) ==
    IF i > Len(refs) THEN <<>> ELSE ImgTag(refs[i], AltOf(i)) \o Imgs(refs, i + 1)

\* The document around the images.  The head holds two meta elements that are
\* translated and one that is not, a title, a noscript and a style; the body
\* holds three paragraphs (one that the service fails on, one blank), a script
\* and a text outside any element.
HeadOf ==
    <<"<head>",
      "<meta name=description content=", "hi", ">",
      "<meta name=keywords content=", "boom", ">",
      "<meta name=author content=", "hi", ">",
      "<title>", "yo", "</title>",
      "<noscript>", "yo", "</noscript>",
      "<style>", "css", "</style>",
      "</head>">>

BodyOf ==
    <<"<p>", "hi", "</p>", "<p>", "boom", "</p>", "<p>", " ", "</p>",
      "<script>", "js", "</script>", "top">>

Pages == [refs : RefLists]

\* page.content(): the document as served, references as written.
Content(pg) == HeadOf \o Imgs(pg.refs, 1) \o BodyOf

\* page.evaluate(...): link.href || link.src of every asset element, which the
\* browser gives resolved against the document's URL.
Discover(pg) == [i \in DOMAIN pg.refs |-> urljoin(url, pg.refs[i])]

\* ------------------------------------------------------------------ files

HtmlFile == <<"webpage.html">>
TranslatedFile == <<"webpage_translated.html">>

\* f'assets/{file_name}', also the file's name below the destination directory
LocalPath(file_name) == <<"assets/">> \o file_name

PageError == [kind |-> "page", subject |-> url]
AssetError(u) == [kind |-> "asset", subject |-> u]

Event(op, i, a, b) == [op |-> op, i |-> i, a |-> a, b |-> b]

\* ------------------------------------------------------------------ run

Init ==
    /\ prog \in Programs
    /\ pc = "start"
    /\ page = [refs |-> <<>>]
    /\ html_content = <<>>
    /\ urls = <<>>
    /\ idx = 1
    /\ files = <<>>
    /\ errors = <<>>
    /\ failures = {}
    /\ trace = <<>>

\* html_content bound before the try: the render failure would go on to translate.
AfterPageError_Bound(p, rendered) == IF p = "save_page" THEN "translate" ELSE "failed"

\* Where the run continues after the handler of the outer try has logged.
\* save_page.py returns html_content, which is unbound when the render failed,
\* and otherwise goes on to translate_page; app.py is over.
AfterPageError(p, rendered) ==
    IF p = "save_page" /\ rendered THEN "translate" ELSE "failed"

\* os.makedirs(page_save_path), before the try
EnsureSavePath ==
    /\ pc = "start"
    /\ \E ok \in BOOLEAN :
         IF ok
         THEN /\ pc' = "render"
              /\ UNCHANGED failures
         ELSE /\ pc' = "failed"
              /\ failures' = failures \cup {"mkdir"}
    /\ UNCHANGED <<prog, page, html_content, urls, idx, files, errors, trace>>

\* page.goto(url, wait_until='networkidle'), page.content(), page.evaluate(...)
RenderPage ==
    /\ pc = "render"
    /\ \/ \E pg \in Pages :
            /\ page' = pg
            /\ html_content' = Content(pg)
            /\ urls' = Discover(pg)
            /\ pc' = "mkassets"
            /\ UNCHANGED <<errors, failures>>
       \/ /\ errors' = Append(errors, PageError)
          /\ failures' = failures \cup {"render"}
          /\ pc' = AfterPageError(prog, FALSE)
          /\ UNCHANGED <<page, html_content, urls>>
    /\ UNCHANGED <<prog, idx, files, trace>>

\* os.makedirs(assets_dir), inside the try
EnsureAssetsDir ==
    /\ pc = "mkassets"
    /\ \E ok \in BOOLEAN :
         IF ok
         THEN /\ pc' = "assets"
              /\ UNCHANGED <<errors, failures>>
         ELSE /\ errors' = Append(errors, PageError)
              /\ failures' = failures \cup {"assetsdir"}
              /\ pc' = AfterPageError(prog, TRUE)
    /\ UNCHANGED <<prog, page, html_content, urls, idx, files, trace>>

\* ------------------------------------------------------------------ assets

\* What page.goto(asset_url) can give: None, an exception, a response with an
\* error status, a response with a success status.
FetchResults == {"none", "throws", "nonsuccess", "ok"}

\* response.body()
Body(asset_url, res) == IF res = "ok" THEN <<"200">> \o asset_url ELSE <<"404">>

\* The data: branch of save_page.py up to the write; wok says whether the
\* file can be opened and written.
DataAttempt(u, wok) ==
    LET hasComma == IndexOf(u, ",") # 0
        mime_type == Before(u, ",")
        data == After(u, ",")
        first == Before(mime_type, ";")
        hasExt == IndexOf(first, "/") # 0
        file_extension == Before(After(first, "/"), "/")
        base64 == "base64" \in Range(mime_type)
        decoded == hasComma /\ hasExt /\ (base64 => B64Valid(data))
    IN  [asset_url |-> u,
         fetched |-> FALSE,
         res |-> IF decoded THEN "ok" ELSE "error",
         file_name |-> <<"inline_asset_", Hash(data), ".">> \o file_extension,
         bytes |-> IF base64 THEN B64Decode(data) ELSE data,
         written |-> decoded /\ wok]

\* file_name of a fetched asset: save_page.py falls back to a hash of the URL
\* when the path has no last segment; app.py takes the segment as it is.
FileName(p, asset_url) ==
    LET name == basename(UrlPath(asset_url))
    IN  IF p = "save_page" /\ name = <<>> THEN <<"asset_", Hash(asset_url)>> ELSE name

\* Whether the program takes the response as one to save: save_page.py tests
\* `if response:`, app.py calls response.body(), which None does not have.
Accepted(p, res) == res \notin {"none", "throws"}

\* The branch of a regular URL up to the write.  Opening assets/ itself (an
\* empty file_name) fails.
NetAttempt(p, u, res, wok) ==
    LET asset_url == urljoin(url, u)
        file_name == FileName(p, asset_url)
    IN  [asset_url |-> asset_url,
         fetched |-> TRUE,
         res |-> res,
         file_name |-> file_name,
         bytes |-> Body(asset_url, res),
         written |-> Accepted(p, res) /\ file_name # <<>> /\ wok]

\* The body of the inner try up to the substitution.
Attempt(p, u, res, wok) ==
    IF p = "save_page" /\ StartsWith(u, <<"data:">>)
    THEN DataAttempt(u, wok)
    ELSE NetAttempt(p, u, res, wok)

\* The substitution placed after the inner try instead of at its end.
Substituted_Always(at) == TRUE

\* html_content.replace(asset_url, f'assets/{file_name}') is the last statement
\* of the inner try: it runs when nothing before it raised.
Substituted(at) == at.written

\* No inner try: an asset's exception reaches the handler of the outer try.
OnAssetError_Unhandled(p, asset_url) ==
    [pc |-> AfterPageError(p, TRUE), entry |-> PageError]

\* The handler of the inner try: one line for the asset, and the loop goes on.
OnAssetError(p, asset_url) == [pc |-> "assets", entry |-> AssetError(asset_url)]

\* What one iteration did, in the order of its statements.
AssetEvents(i, at) ==
    (IF at.fetched THEN <<Event("fetch", i, at.asset_url, <<>>)>>
                   ELSE <<Event("decode", i, at.asset_url, <<at.res>>)>>)
    \o (IF at.written THEN <<Event("write", i, LocalPath(at.file_name), at.bytes)>> ELSE <<>>)
    \o (IF Substituted(at)
        THEN <<Event("subst", i, at.asset_url, LocalPath(at.file_name))>> ELSE <<>>)
    \o (IF at.written THEN <<>> ELSE <<Event("error", i, at.asset_url, <<>>)>>)

\* One iteration of `for asset_url in urls`.
ProcessAsset ==
    /\ pc = "assets"
    /\ idx <= Len(urls)
    /\ \E res \in FetchResults, wok \in BOOLEAN :
         LET at == Attempt(prog, urls[idx], res, wok)
             handled == OnAssetError(prog, at.asset_url)
         IN  /\ files' = IF at.written
                         THEN (LocalPath(at.file_name) :> at.bytes) @@ files
                         ELSE files
             /\ html_content' = IF Substituted(at)
                                THEN Replace(html_content, at.asset_url,
                                             LocalPath(at.file_name))
                                ELSE html_content
             /\ errors' = IF at.written THEN errors ELSE Append(errors, handled.entry)
             /\ failures' = IF at.written THEN failures ELSE failures \cup {"asset"}
             /\ pc' = IF at.written THEN "assets" ELSE handled.pc
             /\ trace' = trace \o AssetEvents(idx, at)
    /\ idx' = idx + 1
    /\ UNCHANGED <<prog, page, urls>>

\* The write of webpage.html after the loop.
SaveHtml ==
    /\ pc = "assets"
    /\ idx > Len(urls)
    /\ files' = (HtmlFile :> html_content) @@ files
    /\ pc' = "translate"
    /\ UNCHANGED <<prog, page, html_content, urls, idx, errors, failures, trace>>

\* ------------------------------------------------------------------ translation

\* Start and end tags of the elements a document may hold.
OpenTags == {"<head>", "<title>", "<noscript>", "<style>", "<p>", "<script>"}
CloseTags == {"</head>", "</title>", "</noscript>", "</style>", "</p>", "</script>"}
TagName(t) ==
    CASE t = "<head>" -> "head" [] t = "<title>" -> "title"
      [] t = "<noscript>" -> "noscript" [] t = "<style>" -> "style"
      [] t = "<script>" -> "script" [] OTHER -> "p"

\* Start of a meta element that find_all('meta', attrs={'name': ['description',
\* 'keywords']}) selects, up to the value of its content attribute.
TranslatedMeta == {"<meta name=description content=", "<meta name=keywords content="}
OtherMeta == {"<meta name=author content="}

\* One token read by the parser in state [stack, mode]: the node it becomes
\* and the state after it.  A node is [kind, anc]: "text" a text node, "meta"
\* the content of a selected meta element, "alt" the alt of an img, "markup"
\* anything else; anc names the elements open around it, outermost first.  An
\* end tag closes the innermost open element.
Feed(st, t) ==
    LET to(k, stack, mode) ==
            [node |-> [kind |-> k, anc |-> st.stack], stack |-> stack, mode |-> mode]
    IN  IF st.mode # "content"
        THEN CASE t = ">" -> to("markup", st.stack, "content")
               [] t = " alt=" -> to("markup", st.stack, "alt")
               [] OTHER -> to(IF st.mode \in {"meta", "alt"} THEN st.mode ELSE "markup",
                              st.stack, st.mode)
        ELSE CASE t \in OpenTags -> to("markup", Append(st.stack, TagName(t)), "content")
               [] t \in CloseTags ->
                    to("markup",
                       IF st.stack = <<>> THEN <<>>
                       ELSE SubSeq(st.stack, 1, Len(st.stack) - 1), "content")
               [] t \in TranslatedMeta -> to("markup", st.stack, "meta")
               [] t \in OtherMeta -> to("markup", st.stack, "attr")
               [] t = "<img src=" -> to("markup", st.stack, "src")
               [] OTHER -> to("text", st.stack, "content")

\* The tokens lo..hi read from state st: their nodes and the state after them.
RECURSIVE Parse(_, _, _, _)
Parse(h, lo, hi, st) ==
    IF lo > hi THEN [nodes |-> <<>>, stack |-> st.stack, mode |-> st.mode]
    ELSE IF lo = hi
    THEN LET f == Feed(st, h[lo])
         IN  [nodes |-> <<f.node>>, stack |-> f.stack, mode |-> f.mode]
    ELSE LET mid == (lo + hi) \div 2
             left == Parse(h, lo, mid, st)
             right == Parse(h, mid + 1, hi, left)
         IN  [nodes |-> left.nodes \o right.nodes, stack |-> right.stack,
              mode |-> right.mode]

\* BeautifulSoup(html_content, 'html.parser'): the node of every token.
Tree(h) == Parse(h, 1, Len(h), [stack |-> <<>>, mode |-> "content"]).nodes

\* element.parent.name
ParentName(n) == IF n.anc = <<>> THEN "[document]" ELSE n.anc[Len(n.anc)]

\* text.strip() is empty
Blank(text) == text \in {"", " "}

\* The list without 'script'.
Excluded_NoScript(p) ==
    IF p = "save_page"
    THEN {"style", "head", "meta", "[document]"}
    ELSE {"style", "head", "title", "meta", "[document]"}

\* The parents whose text nodes the pass over the text skips.
Excluded(p) ==
    IF p = "save_page"
    THEN {"script", "style", "head", "meta", "[document]"}
    ELSE {"script", "style", "head", "title", "meta", "[document]"}

\* The texts for which the request to the translation service raises.
ApiFails(text) == text = "boom"

\* response.choices[0].message.content
Spanish(text) ==
    CASE text = "hi" -> "hola" [] text = "yo" -> "eh" [] text = "cat" -> "gato"
      [] text = "top" -> "cima" [] OTHER -> "es"

\* send_text_to_openai: the translation, and str(e) when the request raised.
send_text_to_openai(text) == IF ApiFails(text) THEN "ERR" ELSE Spanish(text)

\* The positions of h in document order, the order in which find_all gives them.
Positions(h) == [i \in 1..Len(h) |-> i]

\* The positions the three loops of translate_html_content send for translation,
\* in their order: meta contents, alt attributes, text nodes.  app.py has the
\* loop over the text nodes only.
Units(p, h) ==
    LET tree == Tree(h)
        isMeta(i) == tree[i].kind = "meta"
        isAlt(i) == tree[i].kind = "alt" /\ ~Blank(h[i])
        isText(i) == /\ tree[i].kind = "text"
                     /\ ParentName(tree[i]) \notin Excluded(p)
                     /\ ~Blank(h[i])
    IN  (IF p = "save_page"
         THEN SelectSeq(Positions(h), isMeta) \o SelectSeq(Positions(h), isAlt)
         ELSE <<>>)
        \o SelectSeq(Positions(h), isText)

\* The tree after the loops: each unit replaced by what send_text_to_openai gave.
RECURSIVE TranslateUnits(_, _)
TranslateUnits(soup, us) ==
    IF us = <<>> THEN soup
    ELSE TranslateUnits([soup EXCEPT ![Head(us)] = send_text_to_openai(soup[Head(us)])],
                        Tail(us))

\* translate_html_content(html_content): str(soup) after the loops.  Nothing in
\* the loops raises, send_text_to_openai catching what the service raises.
translate_html_content(p, h) == TranslateUnits(h, Units(p, h))

\* The requests sent to the service, in their order.
TranslateEvents(h, us) ==
    [k \in DOMAIN us |-> Event("translate", us[k], <<h[us[k]]>>,
                               <<send_text_to_openai(h[us[k]])>>)]

\* translate_page in save_page.py, the end of the try in app.py: translate the
\* document and write webpage_translated.html.
TranslatePage ==
    /\ pc = "translate"
    /\ LET us == Units(prog, html_content)
       IN  /\ files' = (TranslatedFile :> translate_html_content(prog, html_content)) @@ files
           /\ trace' = trace \o TranslateEvents(html_content, us)
           /\ failures' = IF \E k \in DOMAIN us : ApiFails(html_content[us[k]])
                          THEN failures \cup {"translation"} ELSE failures
    /\ pc' = "done"
    /\ UNCHANGED <<prog, page, html_content, urls, idx, errors>>

Next ==
    \/ EnsureSavePath
    \/ RenderPage
    \/ EnsureAssetsDir
    \/ ProcessAsset
    \/ SaveHtml
    \/ TranslatePage

Spec == Init /\ [][Next]_vars

\* ------------------------------------------------------------------ properties

Terminal == pc \in {"done", "failed"}

\* Some action's guard holds: the guards are the position of the run and, in
\* the loop, idx on either side of the end of the list.
CanStep ==
    \/ pc \in {"start", "render", "mkassets", "translate"}
    \/ pc = "assets" /\ idx \in 1..(Len(urls) + 1)

\* Positions of the trace that hold an event of one of the kinds ops.
EventsOf(ops) == {k \in DOMAIN trace : trace[k].op \in ops}

\* The event of kind op for the asset at index i of urls, 0 when there is none.
EventFor(op, i) ==
    IF \E k \in EventsOf({op}) : trace[k].i = i
    THEN CHOOSE k \in EventsOf({op}) : trace[k].i = i
    ELSE 0

\* The asset at index i was fetched with a success status (or decoded) and written.
SavedOk(i) == EventFor("write", i) # 0 /\ trace[EventFor("write", i)].b # <<"404">>

PerItemFailures == {"asset", "translation"}

\* C1: the run ends Failed only after the render or the creation of a destination
\* directory failed; when only assets or translation units failed, the run is
\* never Failed, it can always take its next step until it is done, and when it
\* is done every asset was processed and webpage.html and
\* webpage_translated.html were written.
C1_PerItemFailuresAbsorbed ==
    /\ pc = "failed" => failures \cap {"mkdir", "render", "assetsdir"} # {}
    /\ failures \subseteq PerItemFailures =>
         /\ pc # "failed"
         /\ Terminal \/ CanStep
         /\ pc = "done" =>
              /\ idx > Len(urls)
              /\ HtmlFile \in DOMAIN files
              /\ files[HtmlFile] = html_content
              /\ TranslatedFile \in DOMAIN files

C1_Witness ==
    /\ pc = "done"
    /\ failures = PerItemFailures
    /\ Len(urls) = MaxAssets
    /\ \A i \in DOMAIN urls : EventFor("error", i) # 0
    /\ {HtmlFile, TranslatedFile} \subseteq DOMAIN files

\* C2: once the render of the page has failed the run is Failed, errors.md holds
\* exactly one line, the one of the page, no file was written and no
\* translation was requested.
C2_RenderFailure ==
    "render" \in failures =>
        /\ pc = "failed"
        /\ errors = <<PageError>>
        /\ DOMAIN files = {}
        /\ trace = <<>>

C2_Witness == prog = "save_page" /\ "render" \in failures /\ pc = "failed"

\* C3: an asset whose fetch gave no response or a response with an error status
\* is failed: it has an error line, no file and no substitution.  A response
\* with an error status is known by its body, so the claim says that no such
\* body is written and that every asset without a file has its error line and
\* no substitution.
C3_Claim ==
    \A i \in 1..(idx - 1) :
        /\ EventFor("write", i) # 0 => trace[EventFor("write", i)].b # <<"404">>
        /\ EventFor("write", i) = 0 =>
             /\ EventFor("error", i) # 0
             /\ EventFor("subst", i) = 0
             /\ \E e \in Range(errors) : e = AssetError(urljoin(url, urls[i]))

\* C4: when the translation of a unit fails, the translated document keeps
\* the unit's source text and errors.md gets a line for the unit, and the other
\* units are translated.
C4_Claim ==
    pc = "done" =>
        \A k \in EventsOf({"translate"}) :
            LET text == trace[k].a[1]
                out == files[TranslatedFile][trace[k].i]
            IN  IF ApiFails(text)
                THEN /\ out = text
                     /\ \E e \in Range(errors) : e.kind = "translation"
                ELSE out = Spanish(text)

C6_Claim ==
    HtmlFile \in DOMAIN files =>
        \A i \in DOMAIN page.refs :
            SavedOk(i) => Occurs(files[HtmlFile], page.refs[i]) = 0

\* C7: when of two saved absolute references one is part of the other, every
\* occurrence of the longer one in the rendered document is, in webpage.html,
\* the longer one's own local path.
C7_Claim ==
    HtmlFile \in DOMAIN files =>
        \A i, j \in DOMAIN page.refs :
            (/\ SavedOk(i) /\ SavedOk(j)
             /\ page.refs[i] = urls[i] /\ page.refs[j] = urls[j]
             /\ page.refs[i] # page.refs[j]
             /\ Occurs(page.refs[j], page.refs[i]) > 0)
            => Occurs(files[HtmlFile], trace[EventFor("write", j)].a)
                 >= Occurs(Content(page), page.refs[j])

\* C8: no reference is fetched or decoded twice and none has its file written
\* twice, also when it is listed twice; no index of the list is fetched twice.
C8_Claim ==
    \A j, k \in EventsOf({"fetch", "decode", "write"}) :
        (j < k /\ trace[j].op = trace[k].op)
        => /\ urls[trace[j].i] # urls[trace[k].i]
           /\ trace[j].i # trace[k].i

\* C9: two different references with different payloads are never written to
\* the same file name.
C9_Claim ==
    \A j, k \in EventsOf({"write"}) :
        (/\ j < k
         /\ urls[trace[j].i] # urls[trace[k].i]
         /\ trace[j].b # trace[k].b)
        => trace[j].a # trace[k].a

\* Positions of the document given to the translation that were sent to the service.
Requested == {trace[k].i : k \in EventsOf({"translate"})}

====
